---- MODULE Spec2Model ----
(***************************************************************************)
(* Model of the todo service of simple-todo-app: the persisted todos table *)
(* and the four request handlers createTodo, getTodos,                     *)
(* updateTodoCompletion and deleteTodo.                                    *)
(*                                                                         *)
(* The table is modelled as a heap: the sequence of its rows in the order  *)
(* an unordered SELECT scans them.  getTodos issues such a SELECT (there   *)
(* is no ORDER BY), so the order of its result is the heap order.          *)
(***************************************************************************)
EXTENDS Integers, Sequences, FiniteSets, TLC

\* ---------------------------------------------------------------- bounds
MaxId == 2        \* number of rows ever inserted (cap on the id sequence)
MaxTime == 1      \* number of times the server clock is seen to advance
NReq == 3         \* number of concurrent requests in SpecConc
NCall == 4        \* number of calls the client makes in SpecClient

\* ---------------------------------------------------------------- inputs
Null == "<null>"
Omitted == "<omitted>"
\* CreateTodoInput values: description omitted, explicitly null, or a text
CreateInputs ==
    { [title |-> "Buy milk", description |-> Omitted],
      [title |-> "Buy milk", description |-> Null],
      [title |-> "Walk dog", description |-> "twice"] }
RequestIds == 1..(MaxId + 1)

VARIABLES
    heap,      \* rows of todosTable in scan order
    nextId,    \* next value of the serial id sequence
    now,       \* server clock as NOW() reads it
    last,      \* the last handler call: its input and its outcome (same: an
               \* update that asked for the value the row already had)
    created,   \* ids returned by createTodo so far, in call order
    reqs,      \* requests in flight (SpecConc, SpecClient): state and response
    todos,     \* client: useState<Todo[]>([])
    isLoading, \* client: useState(false)
    isCreating \* client: useState(false)

vars == <<heap, nextId, now, last, created, reqs, todos, isLoading, isCreating>>

\* the state of the App component
client == <<todos, isLoading, isCreating>>

\* ------------------------------------------------------------ the table
Ids(h) == {h[i].id : i \in DOMAIN h}
Rows(h) == {h[i] : i \in DOMAIN h}

\* mutant of MatchesId: the WHERE clause is lost
MatchesAny(r, id) == TRUE

\* eq(todosTable.id, input.id)
MatchesId(r, id) == r.id = id

Where(h, id) == SelectSeq(h, LAMBDA r : MatchesId(r, id))
WhereNot(h, id) == SelectSeq(h, LAMBDA r : ~MatchesId(r, id))

\* description ?? null
StoredDescription(d) == IF d = Omitted THEN Null ELSE d

\* mutant of NewId: the id is one more than the largest id in the table
NewIdMaxPlusOne(h, seq) ==
    IF h = <<>> THEN 1
    ELSE (CHOOSE m \in {h[i].id : i \in DOMAIN h} : \A i \in DOMAIN h : h[i].id <= m) + 1

\* id serial primary key: nextval of the table's id sequence
NewId(h, seq) == seq

\* mutant of InsertRow: updated_at is taken from a later clock reading
InsertRowLateUpdatedAt(title, description, id, t) ==
    [id |-> id, title |-> title, description |-> IF description = Omitted THEN Null ELSE description,
     completed |-> FALSE, created_at |-> t, updated_at |-> t + 1]

\* INSERT ... VALUES (title, description) RETURNING *, with the column
\* defaults completed = false, created_at = updated_at = now()
InsertRow(title, description, id, t) ==
    [id |-> id, title |-> title, description |-> StoredDescription(description),
     completed |-> FALSE, created_at |-> t, updated_at |-> t]

\* mutant of UpdateSet: the row's description is overwritten with null
UpdateSetNullsDescription(r, c, t) ==
    [r EXCEPT !.completed = c, !.updated_at = t, !.description = Null]

\* mutant of UpdateSet: the row's title is overwritten
UpdateSetSampleTitle(r, c, t) ==
    [r EXCEPT !.completed = c, !.updated_at = t, !.title = "Sample Todo"]

\* mutant of UpdateSet: completed is flipped instead of set
UpdateSetToggles(r, c, t) == [r EXCEPT !.completed = ~r.completed, !.updated_at = t]

\* mutant of UpdateSet: completed is not written
UpdateSetKeepsCompleted(r, c, t) == [r EXCEPT !.updated_at = t]

\* mutant of UpdateSet: NOW() is written to the wrong timestamp column
UpdateSetWrongColumn(r, c, t) == [r EXCEPT !.completed = c, !.created_at = t]

\* .set({ completed: input.completed, updated_at: sql`NOW()` })
UpdateSet(r, c, t) == [r EXCEPT !.completed = c, !.updated_at = t]

\* mutant of UpdateReturning: for an id that matches no row a made-up Todo
\* comes back, as from the placeholder handler
UpdateReturningPlaceholder(h, id, c, t) ==
    LET m == SelectSeq(h, LAMBDA r : r.id = id)
    IN  IF m = <<>>
        THEN <<[id |-> id, title |-> "Sample Todo", description |-> Null,
                completed |-> c, created_at |-> t, updated_at |-> t]>>
        ELSE [i \in DOMAIN m |-> [m[i] EXCEPT !.completed = c, !.updated_at = t]]

\* .returning(): the new versions of the rows the UPDATE matched
UpdateReturning(h, id, c, t) ==
    LET m == Where(h, id)
    IN  [i \in DOMAIN m |-> UpdateSet(m[i], c, t)]

\* The heap after the UPDATE.  The storage engine writes a new version of
\* each matched row; where an unordered scan then meets it is not fixed:
\* at the old position, or after the rows that were not touched.
UpdateHeaps(h, id, c, t) ==
    { [i \in DOMAIN h |-> IF MatchesId(h[i], id) THEN UpdateSet(h[i], c, t) ELSE h[i]],
      WhereNot(h, id) \o UpdateReturning(h, id, c, t) }

\* if (result.length === 0)
NotFound(result) == Len(result) = 0

\* mutant of NotFoundError: the message does not carry the requested id
NotFoundErrorNoId(id) == [kind |-> "not found", id |-> 0]

\* new Error(`Todo with id ${input.id} not found`)
NotFoundError(id) == [kind |-> "not found", id |-> id]

\* outcome of updateTodoCompletion for the rows the UPDATE returned
UpdateOutcome(result, id) ==
    IF NotFound(result)
    THEN [ret |-> <<>>, error |-> <<NotFoundError(id)>>, success |-> FALSE]
    ELSE [ret |-> <<result[1]>>, error |-> <<>>, success |-> TRUE]

\* DELETE ... WHERE id = input.id RETURNING *
DeleteReturning(h, id) == SelectSeq(h, LAMBDA r : r.id = id)

\* mutant of DeleteHeap: the oldest row is removed, whatever its id
DeleteHeapOldest(h, id) == IF Len(h) = 0 THEN h ELSE Tail(h)

DeleteHeap(h, id) == SelectSeq(h, LAMBDA r : r.id # id)

\* mutant of DeleteOutcome: success is reported without looking at the result
DeleteOutcomeAlways(result) == [ret |-> <<>>, error |-> <<>>, success |-> TRUE]

\* { success: result.length > 0 }
DeleteOutcome(result) == [ret |-> <<>>, error |-> <<>>, success |-> Len(result) > 0]

\* db.select().from(todosTable): the rows in scan order
SelectAll(h) == h

NoCall == [op |-> "none", id |-> 0, completed |-> FALSE, title |-> "", description |-> Null,
           ret |-> <<>>, error |-> <<>>, success |-> FALSE, same |-> FALSE]

Call(op, id, c, title, d, out) ==
    [op |-> op, id |-> id, completed |-> c, title |-> title, description |-> d,
     ret |-> out.ret, error |-> out.error, success |-> out.success, same |-> FALSE]

\* a request of the concurrent specification, before its storage step
Request(op, id, c) ==
    [st |-> "pending", op |-> op, id |-> id, completed |-> c,
     ret |-> <<>>, error |-> <<>>, success |-> FALSE]

NoRequest == [Request("none", 0, FALSE) EXCEPT !.st = "done"]

\* the input createTodo requests of the concurrent specification carry
ConcInput == [title |-> "Buy milk", description |-> Omitted]

\* ids the concurrent update and delete requests name
ConcIds == 1..2

ConcRequests ==
    {Request("create", 0, FALSE)}
    \cup {Request("update", id, c) : id \in ConcIds, c \in BOOLEAN}
    \cup {Request("delete", id, FALSE) : id \in ConcIds}

\* a rank that orders the requests, to list each group of requests once
Rank(q) ==
    IF q.op = "create" THEN 0
    ELSE IF q.op = "update" THEN 2 * q.id + (IF q.completed THEN 1 ELSE 0)
    ELSE 10 + q.id

Done(r, out) ==
    [reqs[r] EXCEPT !.st = "done", !.ret = out.ret, !.error = out.error,
                    !.success = out.success]

\* ------------------------------------------------------------- handlers
Init ==
    /\ heap = <<>>
    /\ nextId = 1
    /\ now = 0
    /\ last = NoCall
    /\ created = <<>>
    /\ reqs = [r \in 1..NReq |-> NoRequest]
    /\ todos = <<>>
    /\ isLoading = FALSE
    /\ isCreating = FALSE

createTodo(input) ==
    /\ nextId <= MaxId
    /\ LET row == InsertRow(input.title, input.description, NewId(heap, nextId), now)
       IN  /\ heap' = Append(heap, row)
           /\ last' = Call("create", 0, FALSE, input.title, input.description,
                           [ret |-> <<row>>, error |-> <<>>, success |-> TRUE])
           /\ created' = Append(created, row.id)
    /\ nextId' = nextId + 1
    /\ UNCHANGED <<now, reqs, client>>

getTodos ==
    /\ last' = Call("get", 0, FALSE, "", Null,
                    [ret |-> SelectAll(heap), error |-> <<>>, success |-> TRUE])
    /\ UNCHANGED <<heap, nextId, now, created, reqs, client>>

updateTodoCompletion(id, c) ==
    /\ heap' \in UpdateHeaps(heap, id, c, now)
    /\ last' = [Call("update", id, c, "", Null,
                         UpdateOutcome(UpdateReturning(heap, id, c, now), id))
                EXCEPT !.same = \E i \in DOMAIN heap : heap[i].id = id /\ heap[i].completed = c]
    /\ UNCHANGED <<nextId, now, created, reqs, client>>

deleteTodo(id) ==
    /\ heap' = DeleteHeap(heap, id)
    /\ last' = Call("delete", id, FALSE, "", Null, DeleteOutcome(DeleteReturning(heap, id)))
    /\ UNCHANGED <<nextId, now, created, reqs, client>>

\* the server clock advances between two statements
Tick ==
    /\ now < MaxTime
    /\ now' = now + 1
    /\ UNCHANGED <<heap, nextId, last, created, reqs, client>>

Next ==
    \/ \E input \in CreateInputs : createTodo(input)
    \/ getTodos
    \/ \E id \in RequestIds, c \in BOOLEAN : updateTodoCompletion(id, c)
    \/ \E id \in RequestIds : deleteTodo(id)
    \/ Tick

Spec == Init /\ [][Next]_vars

\* ------------------------------------------------- concurrent requests
\* NReq requests are in flight at once over a table that is empty or holds
\* one row; each handler awaits a single statement, which the storage
\* engine runs atomically, and holds nothing of the table before or after.
InitConc ==
    /\ now = 0
    /\ last = NoCall
    /\ \E n \in 0..1 :
          /\ heap = [i \in 1..n |-> InsertRow(ConcInput.title, ConcInput.description, i, 0)]
          /\ created = [i \in 1..n |-> i]
          /\ nextId = n + 1
    /\ reqs \in {f \in [1..NReq -> ConcRequests] :
                    \A r \in 1..(NReq - 1) : Rank(f[r]) <= Rank(f[r + 1])}
    /\ todos = <<>>
    /\ isLoading = FALSE
    /\ isCreating = FALSE

ExecCreate(r) ==
    /\ reqs[r].st = "pending" /\ reqs[r].op = "create"
    /\ LET row == InsertRow(ConcInput.title, ConcInput.description, NewId(heap, nextId), now)
       IN  /\ heap' = Append(heap, row)
           /\ reqs' = [reqs EXCEPT ![r] = Done(r, [ret |-> <<row>>, error |-> <<>>, success |-> TRUE])]
           /\ created' = Append(created, row.id)
    /\ nextId' = nextId + 1
    /\ UNCHANGED <<now, last, client>>

ExecUpdate(r) ==
    /\ reqs[r].st = "pending" /\ reqs[r].op = "update"
    /\ heap' \in UpdateHeaps(heap, reqs[r].id, reqs[r].completed, now)
    /\ reqs' = [reqs EXCEPT ![r] =
                  Done(r, UpdateOutcome(UpdateReturning(heap, reqs[r].id, reqs[r].completed, now),
                                        reqs[r].id))]
    /\ UNCHANGED <<nextId, now, last, created, client>>

ExecDelete(r) ==
    /\ reqs[r].st = "pending" /\ reqs[r].op = "delete"
    /\ heap' = DeleteHeap(heap, reqs[r].id)
    /\ reqs' = [reqs EXCEPT ![r] = Done(r, DeleteOutcome(DeleteReturning(heap, reqs[r].id)))]
    /\ UNCHANGED <<nextId, now, last, created, client>>

NextConc ==
    \/ \E r \in 1..NReq : ExecCreate(r)
    \/ \E r \in 1..NReq : ExecUpdate(r)
    \/ \E r \in 1..NReq : ExecDelete(r)
    \/ Tick

SpecConc == InitConc /\ [][NextConc]_vars

\* ------------------------------------------------------------ the client
\* The App component and the server it calls.  A call is sent (pending), the
\* server runs its handler (done), and the response resumes the client
\* handler after its await (settled).  Responses arrive in any order.
IdleCall == [Request("none", 0, FALSE) EXCEPT !.st = "idle"]

\* what the title field of the form may hold on submit
FormTitles == {ConcInput.title, "", "  "}

\* formData.title.trim()
Trim(title) == IF title \in {"", "  "} THEN "" ELSE title

\* the first call slot not used yet (slot 1 is the loadTodos of the mount)
FreeSlots == {r \in 2..NCall : reqs[r].st = "idle"}
FreeSlot == CHOOSE r \in FreeSlots : \A x \in FreeSlots : r <= x

\* the effect has run: loadTodos was called
Mounted == reqs[1].st # "idle"

\* the promise of the call rejects
Rejected(q) == q.error # <<>>

\* setTodos(result)
AfterLoad(prev, result) == result

\* setTodos(prev => [...prev, response])
AfterCreate(prev, response) == Append(prev, response)

\* setTodos(prev => prev.map(todo =>
\*   todo.id === id ? { ...todo, completed: updatedTodo.completed } : todo))
AfterToggle(prev, id, updatedTodo) ==
    [i \in DOMAIN prev |->
        IF prev[i].id = id THEN [prev[i] EXCEPT !.completed = updatedTodo.completed]
        ELSE prev[i]]

\* setTodos(prev => prev.filter(todo => todo.id !== id))
AfterDelete(prev, id) == SelectSeq(prev, LAMBDA todo : todo.id # id)

\* mutant of CreatingAfter: setIsCreating(false) runs in the try block only
CreatingAfterTryOnly(q) == Rejected(q)

\* finally { setIsCreating(false) }
CreatingAfter(q) == FALSE

\* finally { setIsLoading(false) }
LoadingAfter(q) == FALSE

\* the call's slot once its handler has finished: what is kept is which
\* operation it was and how it ended
Settled(r) ==
    [reqs[r] EXCEPT !.st = "settled", !.ret = <<>>, !.id = 0, !.completed = FALSE]

\* the server's table is empty or holds one row when the page is opened
InitClient ==
    /\ now = 0
    /\ last = NoCall
    /\ \E n \in 0..1 :
          /\ heap = [i \in 1..n |-> InsertRow(ConcInput.title, ConcInput.description, i, 0)]
          /\ created = [i \in 1..n |-> i]
          /\ nextId = n + 1
    /\ reqs = [r \in 1..NCall |-> IdleCall]
    /\ todos = <<>>
    /\ isLoading = FALSE
    /\ isCreating = FALSE

\* useEffect(() => { loadTodos() }): up to the await
loadTodos ==
    /\ ~Mounted
    /\ isLoading' = TRUE
    /\ reqs' = [reqs EXCEPT ![1] = Request("get", 0, FALSE)]
    /\ UNCHANGED <<heap, nextId, now, last, created, todos, isCreating>>

\* loadTodos after the await
loadTodosResume ==
    /\ reqs[1].st = "done" /\ reqs[1].op = "get"
    /\ todos' = IF Rejected(reqs[1]) THEN todos ELSE AfterLoad(todos, reqs[1].ret)
    /\ isLoading' = LoadingAfter(reqs[1])
    /\ reqs' = [reqs EXCEPT ![1] = Settled(1)]
    /\ UNCHANGED <<heap, nextId, now, last, created, isCreating>>

\* handleSubmit up to the await; the submit button is disabled while
\* isCreating or while the title is blank
handleSubmit(title) ==
    /\ Mounted /\ FreeSlots # {}
    /\ ~isCreating
    /\ Trim(title) # ""
    /\ isCreating' = TRUE
    /\ reqs' = [reqs EXCEPT ![FreeSlot] = Request("create", 0, FALSE)]
    /\ UNCHANGED <<heap, nextId, now, last, created, todos, isLoading>>

\* handleSubmit after the await
handleSubmitResume(r) ==
    /\ reqs[r].st = "done" /\ reqs[r].op = "create"
    /\ todos' = IF Rejected(reqs[r]) THEN todos ELSE AfterCreate(todos, reqs[r].ret[1])
    /\ isCreating' = CreatingAfter(reqs[r])
    /\ reqs' = [reqs EXCEPT ![r] = Settled(r)]
    /\ UNCHANGED <<heap, nextId, now, last, created, isLoading>>

\* handleToggleComplete(todo.id, !todo.completed) up to the await, from the
\* i-th entry of the list, which is shown when not loading
handleToggleComplete(i) ==
    /\ Mounted /\ FreeSlots # {}
    /\ ~isLoading /\ i \in DOMAIN todos
    /\ reqs' = [reqs EXCEPT ![FreeSlot] = Request("update", todos[i].id, ~todos[i].completed)]
    /\ UNCHANGED <<heap, nextId, now, last, created, client>>

\* handleToggleComplete after the await
handleToggleCompleteResume(r) ==
    /\ reqs[r].st = "done" /\ reqs[r].op = "update"
    /\ todos' = IF Rejected(reqs[r]) THEN todos
                ELSE AfterToggle(todos, reqs[r].id, reqs[r].ret[1])
    /\ reqs' = [reqs EXCEPT ![r] = Settled(r)]
    /\ UNCHANGED <<heap, nextId, now, last, created, isLoading, isCreating>>

\* handleDelete(todo.id) up to the await, from the i-th entry of the list
handleDelete(i) ==
    /\ Mounted /\ FreeSlots # {}
    /\ ~isLoading /\ i \in DOMAIN todos
    /\ reqs' = [reqs EXCEPT ![FreeSlot] = Request("delete", todos[i].id, FALSE)]
    /\ UNCHANGED <<heap, nextId, now, last, created, client>>

\* handleDelete after the await
handleDeleteResume(r) ==
    /\ reqs[r].st = "done" /\ reqs[r].op = "delete"
    /\ todos' = IF Rejected(reqs[r]) THEN todos ELSE AfterDelete(todos, reqs[r].id)
    /\ reqs' = [reqs EXCEPT ![r] = Settled(r)]
    /\ UNCHANGED <<heap, nextId, now, last, created, isLoading, isCreating>>

\* the server runs getTodos for a call
ExecGet(r) ==
    /\ reqs[r].st = "pending" /\ reqs[r].op = "get"
    /\ reqs' = [reqs EXCEPT ![r] =
                  Done(r, [ret |-> SelectAll(heap), error |-> <<>>, success |-> TRUE])]
    /\ UNCHANGED <<heap, nextId, now, last, created, client>>

\* catch (error) { console.error(...); throw error }: the statement fails in
\* storage, the table is as it was and the call rejects
ExecFail(r) ==
    /\ reqs[r].st = "pending"
    /\ reqs' = [reqs EXCEPT ![r] =
                  Done(r, [ret |-> <<>>, error |-> <<[kind |-> "storage", id |-> 0]>>,
                           success |-> FALSE])]
    /\ UNCHANGED <<heap, nextId, now, last, created, client>>

NextClient ==
    \/ loadTodos
    \/ loadTodosResume
    \/ \E title \in FormTitles : handleSubmit(title)
    \/ \E r \in 1..NCall : handleSubmitResume(r)
    \/ \E i \in DOMAIN todos : handleToggleComplete(i)
    \/ \E r \in 1..NCall : handleToggleCompleteResume(r)
    \/ \E i \in DOMAIN todos : handleDelete(i)
    \/ \E r \in 1..NCall : handleDeleteResume(r)
    \/ \E r \in 1..NCall : ExecGet(r)
    \/ \E r \in 1..NCall : ExecCreate(r)
    \/ \E r \in 1..NCall : ExecUpdate(r)
    \/ \E r \in 1..NCall : ExecDelete(r)
    \/ \E r \in 1..NCall : ExecFail(r)
    \/ Tick

SpecClient == InitClient /\ [][NextClient]_vars

\* the row of table h with the given id
RowOf(h, id) == CHOOSE r \in Rows(h) : r.id = id

\* ----------------------------------------------------------------- C1
\* C1: createTodo adds exactly one row and returns it with completed = false,
\* an id that no row of the table had before the call, and created_at equal
\* to updated_at; every row that was in the table before is still there,
\* unchanged.
C1_CreateAddsOneFreshRow ==
    [][LET input == [title |-> last'.title, description |-> last'.description]
       IN
        (last'.op = "create" /\ createTodo(input)) =>
        /\ Len(last'.ret) = 1 /\ last'.error = <<>>
        /\ LET t == last'.ret[1]
           IN  /\ t.completed = FALSE
               /\ t.id \notin Ids(heap)
               /\ t.created_at = t.updated_at
               /\ t.title = input.title
               /\ Len(heap') = Len(heap) + 1
               /\ Rows(heap') = Rows(heap) \cup {t}
               /\ \A i \in DOMAIN heap : heap'[i] = heap[i]]_vars

\* a createTodo has returned a row while another row was in the table
C1_Witness ==
    /\ last.op = "create" /\ Len(last.ret) = 1
    /\ Len(heap) = 2 /\ last.ret[1] = heap[2]

\* ----------------------------------------------------------------- C2
\* C2: getTodos returns exactly the rows of the table, each once, in
\* ascending id order, also after rows have been updated or deleted.
C2_GetTodosAscendingId ==
    last.op = "get" =>
        /\ Len(last.ret) = Len(heap)
        /\ Rows(last.ret) = Rows(heap)
        /\ \A i, j \in DOMAIN last.ret : i < j => last.ret[i].id < last.ret[j].id

\* ----------------------------------------------------------------- C3
\* C3: updateTodoCompletion(id, c) on a present id sets completed to c on that
\* row, returns the row as stored, keeps its id, title, description and
\* created_at, and leaves every other row and the number of rows unchanged.
C3_UpdateSetsCompletedOnly ==
    [][LET id == last'.id
           c == last'.completed
       IN
        (last'.op = "update" /\ updateTodoCompletion(id, c) /\ id \in Ids(heap)) =>
            /\ last'.error = <<>> /\ Len(last'.ret) = 1
            /\ LET old == RowOf(heap, id)
                   t == last'.ret[1]
               IN  /\ t \in Rows(heap')
                   /\ t.completed = c
                   /\ t.id = id
                   /\ t.title = old.title
                   /\ t.description = old.description
                   /\ t.created_at = old.created_at
                   /\ Rows(heap') \ {t} = Rows(heap) \ {old}
            /\ Len(heap') = Len(heap)]_vars

\* an update of one of two rows has returned that row, now completed
C3_Witness ==
    /\ last.op = "update" /\ last.error = <<>> /\ Len(last.ret) = 1
    /\ last.ret[1].completed /\ last.ret[1] \in Rows(heap)
    /\ Len(heap) = 2

\* ----------------------------------------------------------------- C4
\* C4: updateTodoCompletion(id, c) on an id that is not in the table fails
\* with a not-found error naming id, returns no Todo and leaves the table as
\* it was.
C4_UpdateMissingIdFails ==
    [][LET id == last'.id
           c == last'.completed
       IN
        (last'.op = "update" /\ updateTodoCompletion(id, c) /\ id \notin Ids(heap)) =>
            /\ Len(last'.error) = 1
            /\ last'.error[1].kind = "not found"
            /\ last'.error[1].id = id
            /\ last'.ret = <<>>
            /\ heap' = heap]_vars

\* an update of a missing id has failed while the table held a row
C4_Witness ==
    /\ last.op = "update" /\ Len(last.error) = 1
    /\ last.id \notin Ids(heap) /\ Len(heap) >= 1

\* ----------------------------------------------------------------- C5
\* C5: deleteTodo(id) on a present id returns success = true and removes the
\* row with that id and no other: getTodos no longer contains the id and
\* every other row is still there with its fields unchanged.
C5_DeleteRemovesExactlyThatRow ==
    [][LET id == last'.id
       IN
        (last'.op = "delete" /\ deleteTodo(id) /\ id \in Ids(heap)) =>
            /\ last'.success /\ last'.error = <<>>
            /\ id \notin Ids(SelectAll(heap'))
            /\ Rows(heap') = Rows(heap) \ {RowOf(heap, id)}
            /\ Len(heap') = Len(heap) - 1]_vars

\* a delete has succeeded and left another row in the table
C5_Witness ==
    /\ last.op = "delete" /\ last.success
    /\ last.id \notin Ids(heap) /\ Len(heap) >= 1

\* ----------------------------------------------------------------- C6
\* C6: deleteTodo(id) on an id that is not in the table returns
\* success = false without an error and leaves the table as it was, where
\* updateTodoCompletion on the same id fails with not found.
C6_DeleteMissingIdReturnsFalse ==
    [][LET id == last'.id
       IN
        (last'.op = "delete" /\ deleteTodo(id) /\ id \notin Ids(heap)) =>
            /\ last'.success = FALSE
            /\ last'.error = <<>>
            /\ heap' = heap
            /\ \A c \in BOOLEAN :
                  UpdateOutcome(UpdateReturning(heap, id, c, now), id).error # <<>>]_vars

\* a delete of a missing id has returned false while the table held a row
C6_Witness ==
    /\ last.op = "delete" /\ ~last.success /\ last.error = <<>>
    /\ last.id \notin Ids(heap) /\ Len(heap) >= 1

\* ----------------------------------------------------------------- C7
\* C7: every successful updateTodoCompletion returns an updated_at strictly
\* greater than the updated_at the row had before it (set at insert or by
\* the previous update).
C7_UpdateStrictlyIncreasesUpdatedAt ==
    [][LET id == last'.id
           c == last'.completed
       IN
        (last'.op = "update" /\ updateTodoCompletion(id, c) /\ id \in Ids(heap)) =>
            /\ Len(last'.ret) = 1
            /\ last'.ret[1].updated_at > RowOf(heap, id).updated_at]_vars

\* ----------------------------------------------------------------- C8
\* C8: each createTodo returns an id strictly greater than every id returned
\* by an earlier createTodo, whether or not that row has been deleted since.
C8_IdsIncreaseNeverReused ==
    \A i, j \in DOMAIN created : i < j => created[i] < created[j]

\* a createTodo has returned after the row of an earlier one was deleted
C8_Witness ==
    /\ last.op = "create" /\ Len(created) = 2
    /\ created[1] \notin Ids(heap)
    /\ created[2] \in Ids(heap)

\* ----------------------------------------------------------------- C9
\* C9: in every state of the table every row has created_at <= updated_at,
\* no two rows have the same id, and completed is true or false.
C9_RowInvariants ==
    /\ \A i \in DOMAIN heap :
          /\ heap[i].created_at <= heap[i].updated_at
          /\ heap[i].completed \in BOOLEAN
    /\ \A i, j \in DOMAIN heap : i # j => heap[i].id # heap[j].id

\* two rows, one of them updated after the clock advanced
C9_Witness ==
    /\ Len(heap) = 2
    /\ \E i \in DOMAIN heap : heap[i].created_at < heap[i].updated_at /\ heap[i].completed


\* ---------------------------------------------------------------- C10
\* The sequential reading of the three operations, on a table reduced to
\* the id and the completed flag of each row.
SeqStep(s, q) ==
    IF q.op = "create"
    THEN [tbl |-> s.tbl \cup {[id |-> s.next, completed |-> FALSE]},
          next |-> s.next + 1,
          res |-> [kind |-> "todo", id |-> s.next, flag |-> FALSE]]
    ELSE IF q.op = "update"
    THEN IF \E x \in s.tbl : x.id = q.id
         THEN [tbl |-> {x \in s.tbl : x.id # q.id} \cup {[id |-> q.id, completed |-> q.completed]},
               next |-> s.next,
               res |-> [kind |-> "todo", id |-> q.id, flag |-> q.completed]]
         ELSE [tbl |-> s.tbl, next |-> s.next,
               res |-> [kind |-> "not found", id |-> q.id, flag |-> FALSE]]
    ELSE [tbl |-> {x \in s.tbl : x.id # q.id}, next |-> s.next,
          res |-> [kind |-> "success", id |-> q.id, flag |-> \E x \in s.tbl : x.id = q.id]]

\* what a finished request answered
Response(q) ==
    IF q.error # <<>> THEN [kind |-> q.error[1].kind, id |-> q.error[1].id, flag |-> FALSE]
    ELSE IF q.op = "delete" THEN [kind |-> "success", id |-> q.id, flag |-> q.success]
    ELSE IF Len(q.ret) = 1 THEN [kind |-> "todo", id |-> q.ret[1].id, flag |-> q.ret[1].completed]
    ELSE [kind |-> "nothing", id |-> 0, flag |-> FALSE]

DoneReqs == {r \in 1..NReq : reqs[r].st = "done"}

\* ids of rows that were in the table before any request ran
InitialIds ==
    {created[i] : i \in DOMAIN created}
      \ {reqs[r].ret[1].id : r \in {x \in DoneReqs : reqs[x].op = "create" /\ Len(reqs[x].ret) = 1}}

Orders(S) ==
    {f \in [1..Cardinality(S) -> S] : \A i, j \in DOMAIN f : i # j => f[i] # f[j]}

RECURSIVE Replays(_, _, _)
Replays(s, order, i) ==
    IF i > Len(order)
    THEN s.tbl = {[id |-> heap[k].id, completed |-> heap[k].completed] : k \in DOMAIN heap}
    ELSE LET n == SeqStep(s, reqs[order[i]])
         IN  /\ n.res = Response(reqs[order[i]])
             /\ Replays(n, order, i + 1)

\* C10: whatever the interleaving of concurrent createTodo,
\* updateTodoCompletion and deleteTodo requests, the table and the answers of
\* the finished requests are those of running the same requests one after
\* another in some order; a row that concurrent updates wrote holds the
\* completed value one of them asked for.
C10_InterleavingsAreSequential ==
    /\ \E order \in Orders(DoneReqs) :
          Replays([tbl |-> {[id |-> i, completed |-> FALSE] : i \in InitialIds},
                   next |-> Cardinality(InitialIds) + 1], order, 1)
    /\ \A i \in DOMAIN heap :
          LET ups == {r \in DoneReqs : /\ reqs[r].op = "update" /\ reqs[r].id = heap[i].id
                                        /\ reqs[r].error = <<>>}
          IN  ups # {} => \E r \in ups : heap[i].completed = reqs[r].completed

\* two concurrent updates of one id asking for different values have both
\* returned a row, and a third request has finished too
C10_Witness ==
    /\ DoneReqs = 1..NReq
    /\ \E a, b \in DoneReqs :
          /\ reqs[a].op = "update" /\ reqs[b].op = "update"
          /\ reqs[a].id = reqs[b].id /\ reqs[a].completed # reqs[b].completed
          /\ Len(reqs[a].ret) = 1 /\ Len(reqs[b].ret) = 1
          /\ reqs[a].id \in Ids(heap)

\* ---------------------------------------------------------------- C11
\* ids createTodo has returned whose row is no longer in the table
Gone == {created[i] : i \in DOMAIN created} \ Ids(heap)

\* C11: once deleteTodo(id) has returned success = true the id stays out of
\* the table: no later getTodos contains it, updateTodoCompletion on it
\* fails with not found, deleteTodo on it returns success = false, and no
\* createTodo returns it again.
C11_DeletionIsPermanent ==
    [][/\ (last'.op = "delete" /\ deleteTodo(last'.id) /\ last'.success) =>
            /\ last'.id \notin Ids(heap')
            /\ last'.id \in {created'[i] : i \in DOMAIN created'}
       /\ \A id \in Gone :
            /\ id \notin Ids(heap')
            /\ (last'.op = "get" /\ getTodos) => id \notin Ids(last'.ret)
            /\ (last'.op = "update" /\ last'.id = id
                  /\ updateTodoCompletion(id, last'.completed)) =>
                    /\ Len(last'.error) = 1
                    /\ last'.error[1].kind = "not found"
                    /\ last'.ret = <<>>
            /\ (last'.op = "delete" /\ last'.id = id /\ deleteTodo(id)) =>
                    ~last'.success
            /\ (last'.op = "create"
                  /\ createTodo([title |-> last'.title, description |-> last'.description])) =>
                    /\ Len(last'.ret) = 1
                    /\ last'.ret[1].id # id]_vars

\* after a delete and a later create, an update of the deleted id has failed
C11_Witness ==
    /\ last.op = "update" /\ Len(last.error) = 1
    /\ last.id \in Gone
    /\ Len(created) = 2 /\ Len(heap) = 1

\* ---------------------------------------------------------------- C12
\* C12: createTodo stores a null description when the input omits it or gives
\* null, and the given text otherwise; updateTodoCompletion returns the
\* description the row had, null included.
C12_DescriptionNullOrKept ==
    [][/\ LET input == [title |-> last'.title, description |-> last'.description]
          IN  (last'.op = "create" /\ createTodo(input)) =>
                /\ Len(last'.ret) = 1
                /\ last'.ret[1].description =
                     (IF input.description \in {Omitted, Null} THEN Null
                      ELSE input.description)
                /\ last'.ret[1] \in Rows(heap')
       /\ LET id == last'.id
          IN  (last'.op = "update" /\ updateTodoCompletion(id, last'.completed)
                 /\ id \in Ids(heap)) =>
                /\ Len(last'.ret) = 1
                /\ last'.ret[1].description = RowOf(heap, id).description
                /\ RowOf(heap', id).description = RowOf(heap, id).description]_vars

\* an update has returned a row with a null description while the table also
\* holds a row with a text description
C12_Witness ==
    /\ last.op = "update" /\ Len(last.ret) = 1
    /\ last.ret[1].description = Null
    /\ \E i \in DOMAIN heap : heap[i].description \notin {Null, Omitted}

\* ---------------------------------------------------------------- C13
\* C13: completed and updated_at of a row that stays in the table change only
\* in a successful updateTodoCompletion of that row's id, and its title never
\* changes.
C13_OnlyUpdateChangesRow ==
    [][\A i \in DOMAIN heap :
         heap[i].id \in Ids(heap') =>
            LET old == heap[i]
                new == RowOf(heap', old.id)
            IN  /\ new.title = old.title
                /\ (new.completed # old.completed \/ new.updated_at # old.updated_at) =>
                      /\ last'.op = "update"
                      /\ last'.id = old.id
                      /\ last'.error = <<>>
                      /\ updateTodoCompletion(old.id, last'.completed)]_vars

\* one of two rows has been updated after the clock advanced, the other one
\* is as it was inserted
C13_Witness ==
    /\ last.op = "update" /\ Len(last.ret) = 1 /\ Len(heap) = 2
    /\ last.ret[1].updated_at > last.ret[1].created_at
    /\ \E i \in DOMAIN heap :
          /\ heap[i].id # last.id
          /\ ~heap[i].completed
          /\ heap[i].updated_at = heap[i].created_at

\* ---------------------------------------------------------------- C17
\* C17: updateTodoCompletion(id, c) on a row whose completed already is c
\* succeeds, writes the current server time to updated_at and leaves
\* completed, title, description and created_at as they were, so a second
\* application of an update changes nothing but updated_at.
C17_UpdateIdempotentButUpdatedAt ==
    [][LET id == last'.id
           c == last'.completed
       IN
        (last'.op = "update" /\ updateTodoCompletion(id, c) /\ id \in Ids(heap)
           /\ RowOf(heap, id).completed = c) =>
            /\ last'.error = <<>> /\ Len(last'.ret) = 1
            /\ LET old == RowOf(heap, id)
                   t == last'.ret[1]
               IN  /\ t \in Rows(heap')
                   /\ t.id = id
                   /\ t.completed = old.completed
                   /\ t.title = old.title
                   /\ t.description = old.description
                   /\ t.created_at = old.created_at
                   /\ t.updated_at = now
                   /\ t.updated_at >= old.updated_at]_vars

\* an update asking for the value the row already had has returned the row,
\* with updated_at later than created_at
C17_Witness ==
    /\ last.op = "update" /\ last.same /\ last.error = <<>> /\ Len(last.ret) = 1
    /\ last.ret[1].updated_at > last.ret[1].created_at

\* ---------------------------------------------------------------- C14
\* C14: the client's list never holds two entries with the same id.
C14_NoDuplicateIdsInList ==
    \A i, j \in DOMAIN todos : i # j => todos[i].id # todos[j].id

\* ---------------------------------------------------------------- C15
\* no call is in flight, and none was failed by storage
Quiescent ==
    /\ Mounted
    /\ \A r \in 1..NCall : reqs[r].st \in {"idle", "settled"}
    /\ \A r \in 1..NCall : \A k \in DOMAIN reqs[r].error : reqs[r].error[k].kind # "storage"

\* C15: once every call of the client has settled, the ids in its list and
\* the completed flag of each entry are those of the server's table.
C15_ClientEqualsServerWhenSettled ==
    Quiescent =>
        /\ Ids(todos) = Ids(heap)
        /\ \A i \in DOMAIN todos : \A k \in DOMAIN heap :
              todos[i].id = heap[k].id => todos[i].completed = heap[k].completed

\* ---------------------------------------------------------------- C16
\* C16: the step that resumes a client handler whose call rejected leaves
\* the list as it is, and sets isCreating (for createTodo) or isLoading (for
\* getTodos) to false; the step that resumes handleDelete after deleteTodo
\* resolved removes the entries with that id, whatever success says.
C16_RejectionKeepsList ==
    [][\A r \in 1..NCall :
        (reqs[r].st = "done" /\ reqs'[r].st = "settled") =>
            /\ Rejected(reqs[r]) =>
                  /\ todos' = todos
                  /\ reqs[r].op = "create" => isCreating' = FALSE
                  /\ reqs[r].op = "get" => isLoading' = FALSE
            /\ (reqs[r].op = "delete" /\ ~Rejected(reqs[r])) =>
                  /\ \A i \in DOMAIN todos' : todos'[i].id # reqs[r].id
                  /\ todos' = SelectSeq(todos, LAMBDA todo : todo.id # reqs[r].id)]_vars

\* an updateTodoCompletion call has rejected with not found and a deleteTodo
\* call that the server answered with success = false has resolved
C16_Witness ==
    /\ \E r \in 1..NCall :
          /\ reqs[r].st = "settled" /\ reqs[r].op = "update"
          /\ Len(reqs[r].error) = 1 /\ reqs[r].error[1].kind = "not found"
    /\ \E r \in 1..NCall :
          /\ reqs[r].st = "settled" /\ reqs[r].op = "delete"
          /\ reqs[r].error = <<>> /\ ~reqs[r].success
    /\ todos = <<>> /\ ~isLoading

====
